---- MODULE Spec2Model ----
(***************************************************************************)
(* Sydney Live Map backend: the Location / Metric store, the CSV importer  *)
(* (import_csv.py), the synthetic seeder (seed.py) and the read queries    *)
(* (crud.py), as a state machine.                                          *)
(*                                                                         *)
(* Representation choices                                                  *)
(*   - A text (a CSV cell, a type string) is a sequence of tokens; " " is  *)
(*     the whitespace token.  Type strings are spelled letter by letter so *)
(*     that strip / lower / "in" / replace are computed, not assumed.      *)
(*   - An instant is an integer number of hours since 2024-01-01T00:00Z.   *)
(*   - A coordinate is an integer number of 1e-4 degrees.                  *)
(*   - An intensity is an integer number of thousandths (round(x, 3)).     *)
(***************************************************************************)
EXTENDS Integers, Sequences, FiniteSets, Bags, TLC

VARIABLES
    locations,   \* committed rows of table "locations"
    metrics,     \* committed rows of table "metrics"
    locSeq,      \* last value handed out by the locations.id sequence
    metSeq,      \* last value handed out by the metrics.id sequence
    imp,         \* the CSV importer process and its Session
    seed,        \* the on_startup / seed_data process and its Session
    resp,        \* the response of the last read query
    scoreIn,     \* compute_intensity exercised alone: first count
    scoreOut,    \* ... and the intensities of scoreIn, scoreIn + 1
    gen,         \* location_scalers exercised alone: the generator runs
    job          \* a scripted sequence of importer runs over given files

vars == <<locations, metrics, locSeq, metSeq, imp, seed, resp, scoreIn, scoreOut, gen, job>>

-----------------------------------------------------------------------------
(* Bounds of the model *)

MaxCount == 2100      \* largest count fed to compute_intensity on its own
MaxTime == 2          \* query instants range over 0 .. MaxTime
MaxRows == 2          \* rows read from one CSV file
MaxBatch == 2         \* --batch-size ranges over 1 .. MaxBatch
MaxLocs == 2          \* locations.id sequence is capped here
MaxMets == 2          \* metrics.id sequence is capped here
MaxHours == 1         \* seed_data(hours=H), H in 0 .. MaxHours

-----------------------------------------------------------------------------
(* Python values *)

None == "None"
ValueError == "ValueError"
TypeError == "TypeError"

Min(a, b) == IF a <= b THEN a ELSE b
Abs(a) == IF a < 0 THEN -a ELSE a

-----------------------------------------------------------------------------
(* Text: str.strip, str.lower, "sub in s", str.replace, str.endswith *)

Space == " "

RECURSIVE LStrip(_)
LStrip(s) == IF s # <<>> /\ Head(s) = Space THEN LStrip(Tail(s)) ELSE s

RECURSIVE RStrip(_)
RStrip(s) ==
    IF s # <<>> /\ s[Len(s)] = Space THEN RStrip(SubSeq(s, 1, Len(s) - 1)) ELSE s

Strip(s) == RStrip(LStrip(s))

LowerOf(ch) ==
    CASE ch = "A" -> "a" [] ch = "B" -> "b" [] ch = "C" -> "c" [] ch = "D" -> "d"
      [] ch = "E" -> "e" [] ch = "F" -> "f" [] ch = "G" -> "g" [] ch = "H" -> "h"
      [] ch = "I" -> "i" [] ch = "J" -> "j" [] ch = "K" -> "k" [] ch = "L" -> "l"
      [] ch = "M" -> "m" [] ch = "N" -> "n" [] ch = "O" -> "o" [] ch = "P" -> "p"
      [] ch = "Q" -> "q" [] ch = "R" -> "r" [] ch = "S" -> "s" [] ch = "T" -> "t"
      [] ch = "U" -> "u" [] ch = "V" -> "v" [] ch = "W" -> "w" [] ch = "X" -> "x"
      [] ch = "Y" -> "y" [] ch = "Z" -> "z" [] OTHER -> ch

Lower(s) == [i \in 1..Len(s) |-> LowerOf(s[i])]

Contains(s, sub) ==
    \E i \in 1..(Len(s) - Len(sub) + 1) : SubSeq(s, i, i + Len(sub) - 1) = sub

ReplaceChar(s, old, new) == [i \in 1..Len(s) |-> IF s[i] = old THEN new ELSE s[i]]

EndsWith(s, tok) == s # <<>> /\ s[Len(s)] = tok

-----------------------------------------------------------------------------
(* crud.compute_intensity *)

C_MAX == 2000

RECURSIVE Pow2Mod(_, _)
Pow2Mod(k, m) == IF k = 0 THEN 1 % m ELSE (2 * Pow2Mod(k - 1, m)) % m

\* floor(log2(a / 125)) for a >= 1, by repeated doubling / halving.
RECURSIVE Log2Up(_, _)
Log2Up(a, e) == IF a >= 125 * (2 ^ (e + 1)) THEN Log2Up(a, e + 1) ELSE e
RECURSIVE Log2Down(_, _)
Log2Down(a, e) == IF a * (2 ^ e) < 125 THEN Log2Down(a, e + 1) ELSE -e
FloorLog2Over125(a) == IF a >= 125 THEN Log2Up(a, 0) ELSE Log2Down(a, 1)

\* round(c / 2000.0, 3) in thousandths, as IEEE-754 double division followed by
\* Python's correctly rounded round() give it.  c / 2000 = (c / 125) / 16, and the
\* division by 16 is exact, so the double nearest to c / 2000 lies above the real
\* quotient exactly when c / 125 rounds up in its 53rd significant bit: with
\* c * 2^k = 125 q + r and 2^52 <= q < 2^53 that is 2 r > 125.  An even c is a whole
\* number of thousandths; an odd c is a tie in the reals, broken by the sign of the
\* double's error, or by round-half-even when the quotient is exact (r = 0).
RoundDiv2000(c) ==
    LET a == Abs(c)
        s == IF c < 0 THEN -1 ELSE 1
        lo == (a - 1) \div 2
        hi == (a + 1) \div 2
        k == 52 - FloorLog2Over125(a)
        r == (a * Pow2Mod(k, 125)) % 125
    IN  IF a % 2 = 0 THEN s * (a \div 2)
        ELSE IF r = 0 THEN s * (IF lo % 2 = 0 THEN lo ELSE hi)
        ELSE IF 2 * r > 125 THEN s * hi
        ELSE s * lo

\* mutant: normalises against 1000 (the pedestrian maximum) instead of 2000
compute_intensity_div1000(count) ==
    IF count >= 1000 THEN 1000 ELSE count

\* norm = min(count / 2000.0, 1.0); return round(norm, 3)
compute_intensity(count) ==
    IF count >= C_MAX THEN 1000 ELSE RoundDiv2000(count)

-----------------------------------------------------------------------------
(* Built-in parsers, on the literals the CSV files of the model carry *)

Ok(v) == [err |-> FALSE, val |-> v]
Err(e) == [err |-> TRUE, val |-> e]

\* int(s), s one token
IntOf(tok) ==
    CASE tok = "-500" -> Ok(-500)
      [] tok = "200" -> Ok(200)
      [] tok = "2000" -> Ok(2000)
      [] tok = "2200" -> Ok(2200)
      [] tok = "1704070800" -> Ok(1704070800)
      [] OTHER -> Err(ValueError)

ParseInt(s) == IF Len(s) = 1 THEN IntOf(s[1]) ELSE Err(ValueError)

\* float(s), in 1e-4 degrees
FloatOf(tok) ==
    CASE tok = "-33.8675" -> Ok(-338675)
      [] tok = "-33.86750" -> Ok(-338675)
      [] tok = "-33.8523" -> Ok(-338523)
      [] tok = "151.2070" -> Ok(1512070)
      [] tok = "151.207" -> Ok(1512070)
      [] tok = "151.2108" -> Ok(1512108)
      [] OTHER -> Err(ValueError)

ParseFloat(s) == IF Len(s) = 1 THEN FloatOf(s[1]) ELSE Err(ValueError)

\* datetime.fromisoformat(s): the wall-clock hour and the UTC offset (None: naive)
IsoWall(tok) ==
    CASE tok = "2024-01-01T01:00:00" -> Ok(1)
      [] tok = "2024-01-01T02:00:00" -> Ok(2)
      [] tok = "2024-01-01T03:00:00" -> Ok(3)
      [] OTHER -> Err(ValueError)

IsoOffset(tok) ==
    CASE tok = "+00:00" -> Ok(0)
      [] tok = "+01:00" -> Ok(1)
      [] OTHER -> Err(ValueError)

FromIsoFormat(s) ==
    IF Len(s) = 1 /\ ~IsoWall(s[1]).err
        THEN Ok([wall |-> IsoWall(s[1]).val, naive |-> TRUE, off |-> 0])
    ELSE IF Len(s) = 2 /\ ~IsoWall(s[1]).err /\ ~IsoOffset(s[2]).err
        THEN Ok([wall |-> IsoWall(s[1]).val, naive |-> FALSE, off |-> IsoOffset(s[2]).val])
    ELSE Err(ValueError)

\* datetime.fromtimestamp(ts, tz=timezone.utc); 2024-01-01T00:00:00Z is epoch
\* second 1704067200 and an hour has 3600 seconds.
FromTimestamp(ts) == [wall |-> (ts - 1704067200) \div 3600, naive |-> FALSE, off |-> 0]

\* The instant an aware datetime denotes.
Instant(dt) == dt.wall - dt.off

-----------------------------------------------------------------------------
(* import_csv helpers *)

\* _get_field: the first non-empty stripped value of row under names, or "".
RECURSIVE _get_field(_, _)
_get_field(row, names) ==
    IF names = <<>> THEN <<>>
    ELSE LET n == Head(names)
         IN  IF n \notin DOMAIN row THEN _get_field(row, Tail(names))
             ELSE IF Strip(row[n]) # <<>> THEN Strip(row[n])
             ELSE _get_field(row, Tail(names))

\* parse_timestamp: ISO-8601 (a trailing Z is +00:00), else integer epoch seconds;
\* a naive datetime is taken as UTC.
parse_timestamp(s0) ==
    LET s1 == Strip(s0)
        s == IF EndsWith(s1, "Z") THEN SubSeq(s1, 1, Len(s1) - 1) \o <<"+00:00">> ELSE s1
        iso == FromIsoFormat(s)
        dt == IF ~iso.err THEN iso
              ELSE IF ~ParseInt(s).err THEN Ok(FromTimestamp(ParseInt(s).val))
              ELSE Err(ValueError)
    IN  IF dt.err THEN Err(ValueError)
        ELSE IF dt.val.naive THEN Ok(Instant([dt.val EXCEPT !.naive = FALSE, !.off = 0]))
        ELSE Ok(Instant(dt.val))

Light == <<"l", "i", "g", "h", "t">>
Heavy == <<"h", "e", "a", "v", "y">>
All == <<"a", "l", "l">>
LightVehicles == Light \o <<"_", "v", "e", "h", "i", "c", "l", "e", "s">>
HeavyVehicles == Heavy \o <<"_", "v", "e", "h", "i", "c", "l", "e", "s">>
AllVehicles == All \o <<"_", "v", "e", "h", "i", "c", "l", "e", "s">>

normalize_type(s0) ==
    IF s0 = <<>> THEN <<>>
    ELSE LET s == Lower(Strip(s0))
         IN  IF Contains(s, Light) THEN LightVehicles
             ELSE IF Contains(s, Heavy) THEN HeavyVehicles
             ELSE IF Contains(s, All) THEN AllVehicles
             ELSE ReplaceChar(s, Space, "_")

-----------------------------------------------------------------------------
(* models.Location, models.Metric *)

Pedestrian == <<"p", "e", "d", "e", "s", "t", "r", "i", "a", "n">>
Traffic == <<"t", "r", "a", "f", "f", "i", "c">>

Location(id, name, latitude, longitude, type) ==
    [id |-> id, name |-> name, latitude |-> latitude, longitude |-> longitude,
     type |-> type]

\* Attributes the declarative constructor of Metric accepts as keywords.
MetricAttributes == {"id", "location_id", "timestamp", "count", "location"}

\* Metric(**kwargs): the declarative base's constructor raises TypeError for a
\* keyword that is no attribute of the class; an attribute not given is None.
Metric(kwargs) ==
    IF \E k \in DOMAIN kwargs : k \notin MetricAttributes THEN Err(TypeError)
    ELSE Ok([a \in {"location_id", "timestamp", "count"} |->
                IF a \in DOMAIN kwargs THEN kwargs[a] ELSE None])

\* INSERT of pending rows, ids taken from the table's sequence in the order of add().
Inserted(pending, seq) ==
    {[pending[k] EXCEPT !.id = seq + k] : k \in 1..Len(pending)}

-----------------------------------------------------------------------------
(* Inputs *)

NameA == <<"A">>
NameB == <<"B">>
Bus == <<"b", "u", "s">>

\* The two sites of the CSV files: the first and the third entry of SEED_LOCATIONS.
Site1 == [latitude |-> <<"-33.8675">>, longitude |-> <<"151.2070">>]
Site2 == [latitude |-> <<"-33.8523">>, longitude |-> <<"151.2108">>]

LocationRow(name, site, type) ==
    [name |-> name, latitude |-> site.latitude, longitude |-> site.longitude,
     type |-> type]

\* Rows of a locations file: well-formed rows, a row without a type, a row that
\* spells a coordinate differently, a row that renames a site, and rows the
\* importer skips (no name, a latitude that is no number).
LocationRows ==
    {LocationRow(NameA, Site1, Pedestrian), LocationRow(NameA, Site1, Traffic),
     LocationRow(NameA, Site2, Pedestrian)}
    \cup {LocationRow(NameA, Site1, <<>>),
          LocationRow(NameA, [Site1 EXCEPT !.longitude = <<"151.207">>], Pedestrian),
          LocationRow(NameB, Site1, Pedestrian),
          LocationRow(<<Space>>, Site1, Pedestrian),
          LocationRow(NameA, [Site1 EXCEPT !.latitude = <<"n/a">>], Pedestrian)}

MetricRow(timestamp, count, site, type) ==
    [timestamp |-> timestamp, count |-> count, latitude |-> site.latitude,
     longitude |-> site.longitude, type |-> type]

Hour1Z == <<"2024-01-01T01:00:00", "Z">>
Hour2Naive == <<"2024-01-01T02:00:00">>
Hour1Epoch == <<"1704070800">>
Hour2Offset == <<"2024-01-01T03:00:00", "+01:00">>

\* Rows of a metrics file: well-formed rows, the same instants written as epoch
\* seconds and with a UTC offset, a row with split count columns, a type written
\* with capitals and padding, and rows the importer skips.
MetricRows ==
    {MetricRow(ts, count, Site1, type) :
        ts \in {Hour1Z, Hour2Naive}, count \in {<<"-500">>, <<"2200">>},
        type \in {Pedestrian, Traffic}}
    \cup {MetricRow(ts, count, Site2, Pedestrian) :
        ts \in {Hour1Z, Hour2Naive}, count \in {<<"-500">>, <<"2200">>}}
    \cup {MetricRow(Hour1Epoch, <<"2200">>, Site1, Pedestrian),
          MetricRow(Hour2Offset, <<"2200">>, Site1, Pedestrian),
          [timestamp |-> Hour1Z, pedestrian_count |-> <<"2000">>,
           traffic_count |-> <<"200">>, latitude |-> Site1.latitude,
           longitude |-> Site1.longitude, type |-> Pedestrian],
          [timestamp |-> Hour1Z, count |-> <<"2200">>, latitude |-> Site1.latitude,
           longitude |-> Site1.longitude,
           classification_type |-> <<Space, "T", "r", "a", "f", "f", "i", "c">>],
          MetricRow(<<>>, <<"2200">>, Site1, Pedestrian),
          MetricRow(<<"soon">>, <<"2200">>, Site1, Pedestrian),
          MetricRow(Hour1Z, <<"many">>, Site1, Pedestrian),
          MetricRow(Hour1Z, <<"2200">>, Site1, <<>>),
          MetricRow(Hour1Z, <<"2200">>, [Site1 EXCEPT !.longitude = <<>>], Pedestrian)}

Clock == 0..MaxTime           \* instants a caller asks about
NowValues == {MaxTime}        \* datetime.now(timezone.utc) when a call is made

NoArg == [none |-> TRUE]
Arg(v) == [none |-> FALSE, val |-> v]

-----------------------------------------------------------------------------
(* State after construction: empty tables, no process running *)

IdleImp ==
    [pc |-> "idle", i |-> 0, batch_size |-> 1, update_existing |-> FALSE,
     new |-> <<>>, dirty |-> {}]

IdleSeed ==
    [pc |-> "idle", hours |-> 0, now |-> 0, k |-> 1, h |-> 0, flushed |-> {},
     new |-> <<>>]

NoResp == [op |-> "none"]

IdleGen == [rng |-> 0, locs |-> <<>>, runs |-> <<>>]

NoJob == [pc |-> "none"]

Init ==
    /\ locations = {}
    /\ metrics = {}
    /\ locSeq = 0
    /\ metSeq = 0
    /\ imp = IdleImp
    /\ seed = IdleSeed
    /\ resp = NoResp
    /\ scoreIn = 0
    /\ scoreOut = <<>>
    /\ gen = IdleGen
    /\ job = NoJob

-----------------------------------------------------------------------------
(* import_csv: the importer's Session *)

\* session.scalar(select(Location).where(latitude == lat, longitude == lon,
\* type == typ)): the rows the SELECT can return.  create_session builds the
\* Session with autoflush=False and the importer flushes only inside commit(), so
\* the objects add()ed since the last commit are not in the table when it runs.
SelectLocations(lat, lon, typ) ==
    {l \in locations : l.latitude = lat /\ l.longitude = lon /\ l.type = typ}

\* session.scalar(select(Metric).where(location_id == loc_id, timestamp == ts))
SelectMetrics(loc_id, ts) ==
    {m \in metrics : m.location_id = loc_id /\ m.timestamp = ts}

\* UPDATE of the rows whose name the Session changed.
Updated(rows, dirty) ==
    {IF \E d \in dirty : d.id = l.id
        THEN [l EXCEPT !.name = (CHOOSE d \in dirty : d.id = l.id).name]
        ELSE l : l \in rows}

\* The flush inside session.commit() of the importer's Session s, and the COMMIT:
\* INSERT the pending rows, UPDATE the renamed ones.
ImpCommitTables(s) ==
    IF s.pc = "locations"
        THEN /\ locations' = Updated(locations, s.dirty) \cup Inserted(s.new, locSeq)
             /\ locSeq' = locSeq + Len(s.new)
             /\ UNCHANGED <<metrics, metSeq>>
        ELSE /\ metrics' = metrics \cup Inserted(s.new, metSeq)
             /\ metSeq' = metSeq + Len(s.new)
             /\ UNCHANGED <<locations, locSeq>>

\* session.commit() inside the loop
ImpCommit(s) ==
    /\ ImpCommitTables(s)
    /\ imp' = [s EXCEPT !.new = <<>>, !.dirty = {}]

\* The end of a loop body that was not left by "continue":
\* if (i % batch_size) == 0: session.commit()
ImpEndOfRow(s) ==
    IF s.i % s.batch_size = 0
        THEN ImpCommit(s)
        ELSE /\ imp' = s
             /\ UNCHANGED <<locations, metrics, locSeq, metSeq>>

\* mutant: the skipped row ends the batch, session.rollback() before "continue"
ImpSkipRollback(s) ==
    /\ imp' = [s EXCEPT !.new = <<>>, !.dirty = {}]
    /\ UNCHANGED <<locations, metrics, locSeq, metSeq>>

\* "continue": the row is skipped, nothing is added and no commit is issued.
ImpSkip(s) ==
    /\ imp' = s
    /\ UNCHANGED <<locations, metrics, locSeq, metSeq>>

\* mutant: the handler of main() commits where it rolls back
ImpAbortCommitted(s) ==
    /\ ImpCommitTables(s)
    /\ imp' = IdleImp

\* An exception leaves the import function: main() calls session.rollback(),
\* re-raises, closes the Session and exits. The pending rows and renames of the
\* Session s are dropped, the committed tables stay.
ImpAbort(s) ==
    /\ imp' = IdleImp
    /\ UNCHANGED <<locations, metrics, locSeq, metSeq>>

\* main(): parse the arguments, create_session, enter import_locations or
\* import_metrics.
ImportStart ==
    /\ imp.pc = "idle"
    /\ \E mode \in {"locations", "metrics"}, update \in BOOLEAN, batch \in 1..MaxBatch :
          /\ (mode = "metrics") => ~update
          /\ imp' = [IdleImp EXCEPT !.pc = mode, !.update_existing = update,
                                    !.batch_size = batch]
    /\ UNCHANGED <<locations, metrics, locSeq, metSeq, seed, resp, scoreIn, scoreOut, gen, job>>

\* The body of the loop of import_locations for row i = imp.i + 1.
import_locations_row(row) ==
    LET s == [imp EXCEPT !.i = imp.i + 1]
        name == _get_field(row, <<"name", "Name">>)
        lat_s == _get_field(row, <<"latitude", "Latitude">>)
        lon_s == _get_field(row, <<"longitude", "Longitude">>)
        lat == ParseFloat(lat_s)
        lon == ParseFloat(lon_s)
        type_s == _get_field(row, <<"type", "Type">>)
        typ == IF type_s # <<>> THEN type_s ELSE Pedestrian
    IN  IF name = <<>> THEN ImpSkip(s)
        ELSE IF lat_s = <<>> \/ lon_s = <<>> \/ lat.err \/ lon.err THEN ImpSkip(s)
        ELSE IF SelectLocations(lat.val, lon.val, typ) # {}
            THEN IF s.update_existing
                    THEN \E existing \in SelectLocations(lat.val, lon.val, typ) :
                            ImpEndOfRow([s EXCEPT !.dirty =
                                {d \in @ : d.id # existing.id}
                                \cup {[id |-> existing.id, name |-> name]}])
                    ELSE ImpSkip(s)
        ELSE /\ locSeq + Len(s.new) < MaxLocs
             /\ ImpEndOfRow([s EXCEPT !.new =
                    Append(@, Location(0, name, lat.val, lon.val, typ))])

\* One iteration of the loop of import_locations, over any row.
ImportLocationsRow ==
    /\ imp.pc = "locations"
    /\ imp.i < MaxRows
    /\ \E row \in LocationRows : import_locations_row(row)
    /\ UNCHANGED <<seed, resp, scoreIn, scoreOut, gen, job>>

\* The count of a metrics row: column count, else pedestrian_count + traffic_count.
RowCount(row) ==
    LET count_s == _get_field(row, <<"count", "Count">>)
        ped_s == _get_field(row, <<"pedestrian_count", "Pedestrian_count">>)
        traf_s == _get_field(row, <<"traffic_count", "Traffic_count">>)
        ped == IF ped_s # <<>> THEN ParseInt(ped_s) ELSE Ok(0)
        traf == IF traf_s # <<>> THEN ParseInt(traf_s) ELSE Ok(0)
    IN  IF count_s # <<>> THEN ParseInt(count_s)
        ELSE IF ped_s = <<>> /\ traf_s = <<>> THEN Err(ValueError)
        ELSE IF ped.err \/ traf.err THEN Err(ValueError)
        ELSE Ok(ped.val + traf.val)

\* The body of the loop of import_metrics for row i = imp.i + 1.
import_metrics_row(row) ==
    LET s == [imp EXCEPT !.i = imp.i + 1]
        ts_raw == _get_field(row, <<"timestamp", "Timestamp">>)
        ts == parse_timestamp(ts_raw)
        count == RowCount(row)
        type_s == _get_field(row, <<"type", "Type", "classification_type">>)
        type_norm == normalize_type(type_s)
        lat_s == _get_field(row, <<"latitude", "Latitude">>)
        lon_s == _get_field(row, <<"longitude", "Longitude">>)
        lat == ParseFloat(lat_s)
        lon == ParseFloat(lon_s)
    IN  IF ts_raw = <<>> \/ ts.err THEN ImpSkip(s)
        ELSE IF count.err THEN ImpSkip(s)
        ELSE IF type_s = <<>> THEN ImpSkip(s)
        ELSE IF lat_s = <<>> \/ lon_s = <<>> \/ lat.err \/ lon.err THEN ImpSkip(s)
        ELSE IF SelectLocations(lat.val, lon.val, type_norm) = {} THEN ImpSkip(s)
        ELSE \E loc \in SelectLocations(lat.val, lon.val, type_norm) :
                IF SelectMetrics(loc.id, ts.val) # {} THEN ImpSkip(s)
                ELSE /\ metSeq + Len(s.new) < MaxMets
                     /\ ImpEndOfRow([s EXCEPT !.new = Append(@,
                            [id |-> 0, location_id |-> loc.id,
                             timestamp |-> ts.val, count |-> count.val])])

\* One iteration of the loop of import_metrics, over any row.
ImportMetricsRow ==
    /\ imp.pc = "metrics"
    /\ imp.i < MaxRows
    /\ \E row \in MetricRows : import_metrics_row(row)
    /\ UNCHANGED <<seed, resp, scoreIn, scoreOut, gen, job>>

\* The file is exhausted: the session.commit() after the loop; main() closes the
\* Session.
ImportEnd ==
    /\ imp.pc \in {"locations", "metrics"}
    /\ ImpCommitTables(imp)
    /\ imp' = IdleImp
    /\ UNCHANGED <<seed, resp, scoreIn, scoreOut, gen, job>>

\* An exception (the file cannot be read further, the database fails) ends the
\* run between two rows or at the last commit.
ImportAbort ==
    /\ imp.pc \in {"locations", "metrics"}
    /\ ImpAbort(imp)
    /\ UNCHANGED <<seed, resp, scoreIn, scoreOut, gen, job>>

-----------------------------------------------------------------------------
(* seed.py *)

\* SEED_LOCATIONS, cut to its first and third entry (one of each type).
SEED_LOCATIONS ==
    <<[name |-> <<"George St & Martin Pl">>, latitude |-> -338675,
       longitude |-> 1512070, type |-> Pedestrian],
      [name |-> <<"Harbour Bridge South">>, latitude |-> -338523,
       longitude |-> 1512108, type |-> Traffic]>>

\* ped = int(max(ped_val, 0)), traffic = int(max(traffic_val, 0)): the curves,
\* the noise and the surge give some non-negative integers.
SeedCounts == {0, 1500}

\* mutant: seed_data without "if session.query(models.Location).count() > 0: return"
SeedStartUnchecked ==
    /\ seed.pc = "idle"
    /\ \E hours \in 0..MaxHours, now \in NowValues :
          seed' = [IdleSeed EXCEPT !.pc = "location", !.hours = hours, !.now = now]
    /\ UNCHANGED <<locations, metrics, locSeq, metSeq, imp, resp, scoreIn, scoreOut, gen, job>>

\* on_startup calls seed_data(session, hours); seed_data returns at once when the
\* table of Locations is not empty, else it reads the clock and enters the loop.
SeedStart ==
    /\ seed.pc = "idle"
    /\ \E hours \in 0..MaxHours, now \in NowValues :
          IF Cardinality(locations) > 0
              THEN seed' = IdleSeed
              ELSE seed' = [IdleSeed EXCEPT !.pc = "location", !.hours = hours,
                                            !.now = now]
    /\ UNCHANGED <<locations, metrics, locSeq, metSeq, imp, resp, scoreIn, scoreOut, gen, job>>

\* mutant: session.commit() in place of session.flush(), the Location is
\* committed before its Metrics are built
SeedAddLocationCommitted ==
    /\ seed.pc = "location"
    /\ seed.k <= Len(SEED_LOCATIONS)
    /\ locSeq < MaxLocs
    /\ locSeq' = locSeq + 1
    /\ LET loc == SEED_LOCATIONS[seed.k]
           location == Location(locSeq + 1, loc.name, loc.latitude, loc.longitude, loc.type)
       IN  /\ locations' = locations \cup {location}
           /\ seed' = [seed EXCEPT !.flushed = @ \cup {location}, !.h = seed.hours,
                                   !.pc = IF seed.hours > 0 THEN "hour" ELSE "location",
                                   !.k = IF seed.hours > 0 THEN @ ELSE @ + 1]
    /\ UNCHANGED <<metrics, metSeq, imp, resp, scoreIn, scoreOut, gen, job>>

\* for loc in SEED_LOCATIONS: session.add(location); session.flush()
\* The INSERT takes an id from the sequence and stays in the open transaction.
SeedAddLocation ==
    /\ seed.pc = "location"
    /\ seed.k <= Len(SEED_LOCATIONS)
    /\ locSeq < MaxLocs
    /\ locSeq' = locSeq + 1
    /\ LET loc == SEED_LOCATIONS[seed.k]
           location == Location(locSeq + 1, loc.name, loc.latitude, loc.longitude, loc.type)
       IN  seed' = [seed EXCEPT !.flushed = @ \cup {location}, !.h = seed.hours,
                                !.pc = IF seed.hours > 0 THEN "hour" ELSE "location",
                                !.k = IF seed.hours > 0 THEN @ ELSE @ + 1]
    /\ UNCHANGED <<locations, metrics, metSeq, imp, resp, scoreIn, scoreOut, gen, job>>

\* One iteration of "for h in range(hours, 0, -1)": build the Metric of hour
\* now - h and add it.  An exception leaves seed_data and on_startup; the "with"
\* block closes the Session, which rolls its transaction back.
SeedAddMetric ==
    /\ seed.pc = "hour"
    /\ \E ped \in SeedCounts, traffic \in SeedCounts :
          LET location == CHOOSE l \in seed.flushed : \A o \in seed.flushed : o.id <= l.id
              metric == Metric([location_id |-> location.id,
                                timestamp |-> seed.now - seed.h,
                                pedestrian_count |-> ped,
                                traffic_count |-> traffic])
          IN  IF metric.err
                  THEN seed' = IdleSeed
                  ELSE seed' = [seed EXCEPT
                          !.new = Append(@, [id |-> 0] @@ metric.val),
                          !.h = @ - 1,
                          !.pc = IF seed.h > 1 THEN "hour" ELSE "location",
                          !.k = IF seed.h > 1 THEN @ ELSE @ + 1]
    /\ UNCHANGED <<locations, metrics, locSeq, metSeq, imp, resp, scoreIn, scoreOut, gen, job>>

\* session.commit() after the loop: flush the pending Metrics and COMMIT.  The
\* column count is NOT NULL: a Metric without one fails the INSERT and nothing is
\* committed.
SeedCommit ==
    /\ seed.pc = "location"
    /\ seed.k > Len(SEED_LOCATIONS)
    /\ metSeq + Len(seed.new) <= MaxMets
    /\ IF \E k \in 1..Len(seed.new) : seed.new[k].count = None
          THEN UNCHANGED <<locations, metrics, metSeq>>
          ELSE /\ locations' = locations \cup seed.flushed
               /\ metrics' = metrics \cup Inserted(seed.new, metSeq)
               /\ metSeq' = metSeq + Len(seed.new)
    /\ seed' = IdleSeed
    /\ UNCHANGED <<locSeq, imp, resp, scoreIn, scoreOut, gen, job>>

-----------------------------------------------------------------------------
(* crud.py: the read queries *)

SetMax(S) == CHOOSE x \in S : \A y \in S : y <= x
SetMin(S) == CHOOSE x \in S : \A y \in S : x <= y

\* "if type_value:" - None and the empty string do not filter.
Truthy(type_value) == ~type_value.none /\ type_value.val # <<>>

\* mutant: WHERE timestamp < at
LatestSubqueryStrict(at) ==
    {[location_id |-> lid,
      max_ts |-> SetMax({m.timestamp : m \in {x \in metrics :
                            x.location_id = lid /\ x.timestamp < at}})] :
        lid \in {m.location_id : m \in {x \in metrics : x.timestamp < at}}}

\* subq: SELECT location_id, max(timestamp) AS max_ts FROM metrics
\*       WHERE timestamp <= at GROUP BY location_id
LatestSubquery(at) ==
    {[location_id |-> lid,
      max_ts |-> SetMax({m.timestamp : m \in {x \in metrics :
                            x.location_id = lid /\ x.timestamp <= at}})] :
        lid \in {m.location_id : m \in {x \in metrics : x.timestamp <= at}}}

\* mutant: LEFT OUTER JOIN from locations, a Location without a row of the
\* subquery is paired with an all-zero Metric
LatestJoinOuter(at, type_value) ==
    {r \in locations \X (metrics \cup {[id |-> 0, location_id |-> 0, timestamp |-> 0,
                                         count |-> 0]}) :
        /\ \/ \E sq \in LatestSubquery(at) :
                 /\ sq.location_id = r[1].id
                 /\ r[2].location_id = sq.location_id
                 /\ r[2].timestamp = sq.max_ts
           \/ /\ r[2].id = 0
              /\ \A sq \in LatestSubquery(at) : sq.location_id # r[1].id
        /\ Truthy(type_value) => (r[1].type = type_value.val)}

\* join_stmt: locations JOIN subq ON subq.location_id = locations.id
\*            JOIN metrics ON metrics.location_id = subq.location_id
\*                        AND metrics.timestamp = subq.max_ts
\*            [WHERE locations.type = type_value]
LatestJoin(at, type_value) ==
    {r \in locations \X metrics :
        /\ \E sq \in LatestSubquery(at) :
              /\ sq.location_id = r[1].id
              /\ r[2].location_id = sq.location_id
              /\ r[2].timestamp = sq.max_ts
        /\ Truthy(type_value) => (r[1].type = type_value.val)}

\* results: one (loc, intensity) pair per row of the join, as a bag (the order of
\* the rows is the database's).
LatestResults(rows) ==
    LET pair(r) == <<r[1], compute_intensity(r[2].count)>>
    IN  [p \in {pair(r) : r \in rows} |-> Cardinality({r \in rows : pair(r) = p})]

latest_intensity_for_locations(at_arg, type_value, now) ==
    LET at == IF at_arg.none THEN now ELSE at_arg.val
    IN  [op |-> "latest_intensity_for_locations", at |-> at,
         type_value |-> type_value, results |-> LatestResults(LatestJoin(at, type_value))]

TypeArgs == {NoArg, Arg(<<>>), Arg(Pedestrian), Arg(Bus)}

\* A reader calls latest_intensity_for_locations; resp is what it is handed.
LatestIntensity ==
    /\ resp = NoResp
    /\ \E at_arg \in {NoArg} \cup {Arg(t) : t \in Clock}, type_value \in TypeArgs,
          now \in NowValues :
          resp' = latest_intensity_for_locations(at_arg, type_value, now)
    /\ UNCHANGED <<locations, metrics, locSeq, metSeq, imp, seed, scoreIn, scoreOut, gen, job>>

RECURSIVE SumCounts(_)
SumCounts(ms) ==
    IF ms = {} THEN 0
    ELSE LET m == CHOOSE x \in ms : TRUE IN m.count + SumCounts(ms \ {m})

RECURSIVE Ascending(_)
Ascending(S) ==
    IF S = {} THEN <<>> ELSE <<SetMin(S)>> \o Ascending(S \ {SetMin(S)})

\* mutant: the WHERE clause without "timestamp >= since"
TypeJoinAllTime(type_value, since) ==
    {m \in metrics :
        \E l \in locations : m.location_id = l.id /\ l.type = type_value}

\* metrics JOIN locations ON metrics.location_id = locations.id
\* WHERE locations.type = type_value AND metrics.timestamp >= since
TypeJoin(type_value, since) ==
    {m \in metrics :
        /\ \E l \in locations : m.location_id = l.id /\ l.type = type_value
        /\ m.timestamp >= since}

\* GROUP BY timestamp, sum(count), ORDER BY timestamp ASC; int(r[1] or 0)
get_metrics_for_type(type_value, since) ==
    LET joined == TypeJoin(type_value, since)
        stamps == Ascending({m.timestamp : m \in joined})
    IN  [k \in 1..Len(stamps) |->
            [timestamp |-> stamps[k],
             count |-> SumCounts({m \in joined : m.timestamp = stamps[k]})]]

\* A reader calls get_metrics_for_type.
MetricsForType ==
    /\ resp = NoResp
    /\ \E type_value \in {<<>>, Pedestrian, Traffic}, since \in Clock :
          resp' = [op |-> "get_metrics_for_type", type_value |-> type_value,
                   since |-> since, rows |-> get_metrics_for_type(type_value, since)]
    /\ UNCHANGED <<locations, metrics, locSeq, metSeq, imp, seed, scoreIn, scoreOut, gen, job>>

\* session.scalars(select(models.Location)).all(): every row (the order is the
\* database's, the rows are given as a set)
get_locations == locations

\* SELECT DISTINCT type FROM locations ORDER BY type: the distinct values (their
\* order is the collation's, the values are given as a set)
get_location_types == {l.type : l \in locations}

\* session.get(models.Location, location_id): the row, or None (NoArg)
get_location(location_id) ==
    LET found == {l \in locations : l.id = location_id}
    IN  IF found = {} THEN NoArg ELSE Arg(CHOOSE l \in found : TRUE)

\* The lists ORDER BY timestamp ASC can return for the rows S: every arrangement
\* with non-decreasing timestamps (rows of equal timestamp come in any order).
OrderedByTimestamp(S) ==
    {q \in [1..Cardinality(S) -> S] :
        /\ \A i \in 1..Cardinality(S), j \in 1..Cardinality(S) : (i # j) => (q[i] # q[j])
        /\ \A i \in 1..(Cardinality(S) - 1) : q[i].timestamp <= q[i + 1].timestamp}

\* WHERE location_id == location_id AND timestamp >= since [AND timestamp <= until]
\* ORDER BY timestamp ASC: the lists the query can return
get_metrics_for_location(location_id, since, until) ==
    OrderedByTimestamp({m \in metrics :
        /\ m.location_id = location_id
        /\ m.timestamp >= since
        /\ ~until.none => (m.timestamp <= until.val)})

\* Location ids a caller asks about: the ids in use and one that never is.
LocationIds == 1..(MaxLocs + 1)

\* mutant: the rows read are deleted and the deletion is committed
GetLocationsDeleting ==
    /\ resp = NoResp
    /\ resp' = [op |-> "get_locations", rows |-> get_locations]
    /\ locations' = {}
    /\ metrics' = {}
    /\ UNCHANGED <<locSeq, metSeq, imp, seed, scoreIn, scoreOut, gen, job>>

\* A reader calls get_locations.
GetLocations ==
    /\ resp = NoResp
    /\ resp' = [op |-> "get_locations", rows |-> get_locations]
    /\ UNCHANGED <<locations, metrics, locSeq, metSeq, imp, seed, scoreIn, scoreOut, gen, job>>

\* GET /location-types: location_types returns get_location_types as it is.
LocationTypes ==
    /\ resp = NoResp
    /\ resp' = [op |-> "get_location_types", types |-> get_location_types]
    /\ UNCHANGED <<locations, metrics, locSeq, metSeq, imp, seed, scoreIn, scoreOut, gen, job>>

\* A reader calls get_metrics_for_location.
MetricsForLocation ==
    /\ resp = NoResp
    /\ \E location_id \in LocationIds, since \in Clock,
          until \in {NoArg} \cup {Arg(t) : t \in Clock} :
          \E rows \in get_metrics_for_location(location_id, since, until) :
              resp' = [op |-> "get_metrics_for_location", location_id |-> location_id,
                       since |-> since, until |-> until, rows |-> rows]
    /\ UNCHANGED <<locations, metrics, locSeq, metSeq, imp, seed, scoreIn, scoreOut, gen, job>>

\* main.list_locations(at, db): the handler declares the query parameter `at`
\* only; it calls latest_intensity_for_locations(db, at), type_value keeps its
\* default None.  The body has one LocationWithIntensity per pair.
list_locations(at, now) == latest_intensity_for_locations(at, NoArg, now).results

\* GET /locations with the query parameters of the request: `at`, and `type`,
\* which the handler does not declare and so does not receive.
ListLocations ==
    /\ resp = NoResp
    /\ \E at \in {NoArg} \cup {Arg(t) : t \in Clock},
          type \in {NoArg, Arg(Pedestrian), Arg(Traffic)}, now \in NowValues :
          resp' = [op |-> "list_locations", query |-> [at |-> at, type |-> type],
                   status |-> 200, body |-> list_locations(at, now)]
    /\ UNCHANGED <<locations, metrics, locSeq, metSeq, imp, seed, scoreIn, scoreOut, gen, job>>

\* schemas.MetricPoint, validated from the attributes of a row (from_attributes):
\* timestamp, pedestrian_count and traffic_count are required fields.
MetricPointFields == {"timestamp", "pedestrian_count", "traffic_count"}

ResponseValidationError == "ResponseValidationError"

MetricPoint(row) ==
    IF MetricPointFields \subseteq DOMAIN row
        THEN Ok([f \in MetricPointFields |-> row[f]])
        ELSE Err(ResponseValidationError)

\* raise HTTPException(status_code=404, detail="Location not found"); calls are
\* the crud calls the handler has made.
NotFound(op, location_id, calls) ==
    [op |-> op, location_id |-> location_id, status |-> 404,
     detail |-> "Location not found", calls |-> calls]

\* main.get_location: GET /locations/{location_id}
get_location_endpoint(location_id) ==
    LET loc == get_location(location_id)
    IN  IF loc.none THEN NotFound("get_location", location_id, <<"get_location">>)
        ELSE [op |-> "get_location", location_id |-> location_id, status |-> 200,
              body |-> loc.val, calls |-> <<"get_location">>]

\* The response to the list `rows` under response_model=list[MetricPoint]: a row
\* that does not validate makes the response a 500.
MetricPointsResponse(location_id, rows) ==
    IF \E k \in 1..Len(rows) : MetricPoint(rows[k]).err
        THEN [op |-> "location_metrics", location_id |-> location_id, status |-> 500,
              detail |-> ResponseValidationError,
              calls |-> <<"get_location", "get_metrics_for_location">>]
        ELSE [op |-> "location_metrics", location_id |-> location_id, status |-> 200,
              body |-> [k \in 1..Len(rows) |-> MetricPoint(rows[k]).val],
              calls |-> <<"get_location", "get_metrics_for_location">>]

\* mutant: the handler without "if not loc: raise HTTPException(404)"
location_metrics_unchecked(location_id, hours, now) ==
    {MetricPointsResponse(location_id, rows) :
        rows \in get_metrics_for_location(location_id, now - hours, NoArg)}

\* main.location_metrics: GET /locations/{location_id}/metrics?hours=, the
\* responses it can give
location_metrics(location_id, hours, now) ==
    IF get_location(location_id).none
        THEN {NotFound("location_metrics", location_id, <<"get_location">>)}
        ELSE {MetricPointsResponse(location_id, rows) :
                rows \in get_metrics_for_location(location_id, now - hours, NoArg)}

\* GET /locations/{location_id}
GetLocation ==
    /\ resp = NoResp
    /\ \E location_id \in LocationIds : resp' = get_location_endpoint(location_id)
    /\ UNCHANGED <<locations, metrics, locSeq, metSeq, imp, seed, scoreIn, scoreOut, gen, job>>

\* GET /locations/{location_id}/metrics
LocationMetrics ==
    /\ resp = NoResp
    /\ \E location_id \in LocationIds, hours \in 0..MaxTime, now \in NowValues :
          resp' \in location_metrics(location_id, hours, now)
    /\ UNCHANGED <<locations, metrics, locSeq, metSeq, imp, seed, scoreIn, scoreOut, gen, job>>

-----------------------------------------------------------------------------
(* The writers: the importer and the seeder, interleaved *)

Next ==
    \/ ImportStart
    \/ ImportLocationsRow
    \/ ImportMetricsRow
    \/ ImportEnd
    \/ ImportAbort
    \/ SeedStart
    \/ SeedAddLocation
    \/ SeedAddMetric
    \/ SeedCommit

Spec == Init /\ [][Next]_vars

-----------------------------------------------------------------------------
(* The readers, over every store of the model's size *)

\* The rows a locations file can leave: any sequence of the parsed rows (the
\* importer does not see the rows pending in its own batch, so repeated triples
\* are among them), numbered by the id sequence.
LocationContents ==
    {Location(0, NameA, lat, lon, type) :
        lat \in {-338675}, lon \in {1512070}, type \in {Pedestrian, Traffic}}
    \cup {Location(0, NameA, -338523, 1512108, Pedestrian)}

MetricContents(n) ==
    [id : {0}, location_id : 1..n, timestamp : {1, 2}, count : {-500, 2200}]

SeqsUpTo(S, n) == UNION {[1..k -> S] : k \in 0..n}

ReadInit ==
    /\ \E ls \in SeqsUpTo(LocationContents, MaxLocs) :
          /\ locations = Inserted(ls, 0)
          /\ locSeq = Len(ls)
          /\ \E ms \in SeqsUpTo(MetricContents(Len(ls)), MaxMets) :
                /\ metrics = Inserted(ms, 0)
                /\ metSeq = Len(ms)
    /\ imp = IdleImp
    /\ seed = IdleSeed
    /\ resp = NoResp
    /\ scoreIn = 0
    /\ scoreOut = <<>>
    /\ gen = IdleGen
    /\ job = NoJob

\* The reader takes the response; the next call can be made.
Return ==
    /\ resp # NoResp
    /\ resp' = NoResp
    /\ UNCHANGED <<locations, metrics, locSeq, metSeq, imp, seed, scoreIn, scoreOut, gen, job>>

ReadNext ==
    \/ LatestIntensity
    \/ MetricsForType
    \/ MetricsForLocation
    \/ GetLocations
    \/ LocationTypes
    \/ ListLocations
    \/ GetLocation
    \/ LocationMetrics
    \/ Return

SpecRead == ReadInit /\ [][ReadNext]_vars

\* The number of entries of a result bag that belong to Location l.
RECURSIVE BagTotal(_, _)
BagTotal(bag, keys) ==
    IF keys = {} THEN 0
    ELSE LET k == CHOOSE x \in keys : TRUE IN bag[k] + BagTotal(bag, keys \ {k})

Entries(results, l) == BagTotal(results, {p \in DOMAIN results : p[1] = l})

\* Location l has an Observation at or before the instant at.
Qualifies(l, at) == \E m \in metrics : m.location_id = l.id /\ m.timestamp <= at

IsLatest == resp.op = "latest_intensity_for_locations"

\* C1: every returned (Location, intensity) carries the score of an Observation of
\* that Location whose timestamp is the greatest among the Location's
\* Observations with timestamp <= at (an Observation exactly at `at` counts, a
\* later one never does).
C1_LatestAtOrBefore ==
    IsLatest =>
        \A p \in DOMAIN resp.results :
            \E m \in metrics :
                /\ m.location_id = p[1].id
                /\ m.timestamp <= resp.at
                /\ \A o \in metrics :
                      (o.location_id = p[1].id /\ o.timestamp <= resp.at)
                          => (o.timestamp <= m.timestamp)
                /\ p[2] = compute_intensity(m.count)

\* A Location with Observations at hour 1 (exactly `at`) and hour 2 of different
\* counts is answered with the hour-1 score.
C1_Witness ==
    /\ IsLatest
    /\ resp.at = 1
    /\ \E l \in locations, m1 \in metrics, m2 \in metrics :
          /\ m1.location_id = l.id /\ m1.timestamp = 1 /\ m1.count = -500
          /\ m2.location_id = l.id /\ m2.timestamp = 2 /\ m2.count = 2200
          /\ Cardinality({m \in metrics : m.location_id = l.id}) = 2
          /\ <<l, compute_intensity(m1.count)>> \in DOMAIN resp.results

\* C2: in every store the importer and the seeder can leave, the result holds
\* exactly one entry for every Location (of the filtered type, if a filter
\* applies) that has an Observation with timestamp <= at, also when two
\* Observations of the Location share the greatest such timestamp.
C2_OneEntryPerLocation ==
    \A at \in Clock, type_value \in TypeArgs :
        \A l \in locations :
            (Qualifies(l, at) /\ (Truthy(type_value) => l.type = type_value.val))
                => (Entries(latest_intensity_for_locations(Arg(at), type_value, at).results, l) = 1)

\* C5: a Location with no Observation at or before `at` is not in the result.
C5_NoObservationNoEntry ==
    IsLatest =>
        \A l \in locations :
            ~Qualifies(l, resp.at) => (\A p \in DOMAIN resp.results : p[1].id # l.id)

\* One Location has only a later Observation, another has none at all, and the
\* result is made of other Locations only.
C5_Witness ==
    /\ IsLatest
    /\ resp.results # <<>>
    /\ \E l \in locations :
          /\ \E m \in metrics : m.location_id = l.id /\ m.timestamp > resp.at
          /\ ~Qualifies(l, resp.at)
          /\ \A p \in DOMAIN resp.results : p[1] # l

\* C6: with a type filter given (any string, not None) every returned Location
\* has that type.
C6_FilterSelectsType ==
    (IsLatest /\ ~resp.type_value.none) =>
        \A p \in DOMAIN resp.results : p[1].type = resp.type_value.val

IsTypeSeries == resp.op = "get_metrics_for_type"

\* The sum of the counts of the Observations numbered 1..n that are at instant t
\* and belong to a Location of the type.
RECURSIVE CountAt(_, _, _)
CountAt(n, t, type) ==
    IF n = 0 THEN 0
    ELSE CountAt(n - 1, t, type)
         + (IF \E m \in metrics : /\ m.id = n /\ m.timestamp = t
                                  /\ \E l \in locations : l.id = m.location_id /\ l.type = type
               THEN (CHOOSE m \in metrics : m.id = n).count
               ELSE 0)

\* C9: get_metrics_for_type returns one row per instant t >= since at which a
\* Location of the type has an Observation, in strictly ascending order, and the
\* row's count is the sum of the counts of all Observations at t of Locations of
\* that type.
C9_SumPerTimestamp ==
    IsTypeSeries =>
        /\ \A j \in 1..(Len(resp.rows) - 1) :
              resp.rows[j].timestamp < resp.rows[j + 1].timestamp
        /\ {resp.rows[j].timestamp : j \in 1..Len(resp.rows)}
              = {m.timestamp : m \in {x \in metrics :
                    /\ x.timestamp >= resp.since
                    /\ \E l \in locations : l.id = x.location_id /\ l.type = resp.type_value}}
        /\ \A j \in 1..Len(resp.rows) :
              resp.rows[j].count = CountAt(metSeq, resp.rows[j].timestamp, resp.type_value)

\* Two pedestrian Locations, both observed exactly at `since`, add up in one row.
C9_Witness ==
    /\ IsTypeSeries
    /\ resp.type_value = Pedestrian
    /\ resp.since = 2
    /\ resp.rows = <<[timestamp |-> 2, count |-> 1700]>>
    /\ \E m1 \in metrics, m2 \in metrics : m1.location_id # m2.location_id

IsLocationSeries == resp.op = "get_metrics_for_location"

\* C12: each of the three queries answers with the empty sequence when nothing
\* qualifies: no Location of the filtered type (any filter string given) with an
\* Observation at or before `at`, no Observation at or after `since` of a
\* Location of the type, no Observation of the Location in [since, until].
C12_NoDataIsEmpty ==
    /\ IsLatest =>
          (({l \in locations :
                /\ Qualifies(l, resp.at)
                /\ ~resp.type_value.none => (l.type = resp.type_value.val)} = {})
              => (resp.results = <<>>))
    /\ IsTypeSeries =>
          (({m \in metrics :
                /\ m.timestamp >= resp.since
                /\ \E l \in locations : l.id = m.location_id /\ l.type = resp.type_value} = {})
              => (resp.rows = <<>>))
    /\ IsLocationSeries =>
          (({m \in metrics :
                /\ m.location_id = resp.location_id
                /\ m.timestamp >= resp.since
                /\ ~resp.until.none => (m.timestamp <= resp.until.val)} = {})
              => (resp.rows = <<>>))

\* C13: a locations-with-intensity request that carries a type filter is
\* answered with Locations of that type only.
C13_RequestFiltersByType ==
    (resp.op = "list_locations" /\ ~resp.query.type.none) =>
        \A p \in DOMAIN resp.body : p[1].type = resp.query.type.val

\* The crud functions and the request handlers that read.
ReadOps ==
    {"latest_intensity_for_locations", "get_metrics_for_type",
     "get_metrics_for_location", "get_location", "get_locations",
     "get_location_types", "list_locations", "location_metrics"}

C15_NotFound ==
    (/\ resp.op \in {"get_location", "location_metrics"}
     /\ \A l \in locations : l.id # resp.location_id) =>
        /\ resp.status = 404
        /\ resp.calls = <<"get_location">>
        /\ "body" \notin DOMAIN resp

\* location_metrics was asked for an unknown id while the store holds a Location
\* with Observations.
C15_Witness ==
    /\ resp.op = "location_metrics"
    /\ resp.status = 404
    /\ \E l \in locations : \E m \in metrics : m.location_id = l.id

-----------------------------------------------------------------------------
(* Claims about the stores the writers leave *)

\* C3: the committed store holds at most one Observation per
\* (location_id, timestamp) pair, whatever files were imported with whatever batch
\* size and whatever seed_data did.
C3_OneObservationPerInstant ==
    \A m1 \in metrics, m2 \in metrics :
        (m1.location_id = m2.location_id /\ m1.timestamp = m2.timestamp) => (m1 = m2)

\* C4: no two committed Locations share (latitude, longitude, type) while only
\* import_locations has written to the table.
C4_OneLocationPerTriple ==
    (\A l \in locations : l.name \in {NameA, NameB}) =>
        \A l1 \in locations, l2 \in locations :
            (l1.latitude = l2.latitude /\ l1.longitude = l2.longitude /\ l1.type = l2.type)
                => (l1 = l2)

\* C7: every intensity latest_intensity_for_locations returns lies in [0, 1]
\* (0 .. 1000 thousandths), in every store the importer and the seeder can leave.
C7_IntensityInUnitInterval ==
    \A at \in Clock, type_value \in TypeArgs :
        \A p \in DOMAIN latest_intensity_for_locations(Arg(at), type_value, at).results :
            0 <= p[2] /\ p[2] <= 1000

\* A call of seed_data that found no Location and entered the loop ends in this
\* step (by its return or by an exception).
SeedDataEnds == seed.pc \in {"location", "hour"} /\ seed'.pc = "idle"

\* C10: seed_data(session, hours=H) on a store without Locations ends having
\* committed every entry of SEED_LOCATIONS, each with exactly H Observations, one
\* at each of now-1h .. now-Hh, with counts that are non-negative integers.
C10_SeedPopulates ==
    [][SeedDataEnds =>
        \A k \in 1..Len(SEED_LOCATIONS) :
            \E l \in locations' :
                /\ l.name = SEED_LOCATIONS[k].name
                /\ l.latitude = SEED_LOCATIONS[k].latitude
                /\ l.longitude = SEED_LOCATIONS[k].longitude
                /\ l.type = SEED_LOCATIONS[k].type
                /\ Cardinality({m \in metrics' : m.location_id = l.id}) = seed.hours
                /\ {m.timestamp : m \in {x \in metrics' : x.location_id = l.id}}
                      = {seed.now - h : h \in 1..seed.hours}
                /\ \A m \in metrics' : (m.location_id = l.id) => (m.count \in Nat)]_vars

\* C11: a step of seed_data (its flushes, its exception, its commit) leaves the
\* committed tables as they are, or commits Locations each of which comes with
\* its whole history: exactly seed.hours Observations, one at each of
\* now-1h .. now-Hh.  No step commits a Location with fewer, and none commits
\* Observations without their Location.
C11_SeedAtomic ==
    [][(seed' # seed) =>
        /\ locations \subseteq locations'
        /\ metrics \subseteq metrics'
        /\ \A l \in locations' \ locations :
              /\ Cardinality({m \in metrics' : m.location_id = l.id}) = seed.hours
              /\ {m.timestamp : m \in {x \in metrics' : x.location_id = l.id}}
                    = {seed.now - h : h \in 1..seed.hours}
        /\ \A m \in metrics' \ metrics :
              \E l \in locations' \ locations : m.location_id = l.id]_vars

\* seed_data has flushed a Location (its id is taken) and then ended by an
\* exception: the committed table holds no Location.
C11_Witness ==
    /\ seed.pc = "idle"
    /\ locSeq > 0
    /\ locations = {}

\* Every entry of SEED_LOCATIONS is the name of at most one committed Location.
SeedLocationsOnce ==
    \A k \in 1..Len(SEED_LOCATIONS) :
        Cardinality({l \in locations : l.name = SEED_LOCATIONS[k].name}) <= 1

\* C17: while the store holds a Location, no step takes seed_data past its first
\* test (it returns, and the tables are left to the importer alone), and so no
\* entry of SEED_LOCATIONS is ever committed twice.
C17_SeedSkipsPopulatedStore ==
    [][/\ (seed.pc = "idle" /\ locations # {}) =>
              /\ seed'.pc = "idle"
              /\ (imp' = imp) => (locations' = locations /\ metrics' = metrics)
       /\ SeedLocationsOnce']_vars

\* An earlier startup has committed the seed Locations, seed_data is not running
\* and the importer has added to the store since.
C17_Witness ==
    /\ seed.pc = "idle"
    /\ \A k \in 1..Len(SEED_LOCATIONS) :
          Cardinality({l \in locations : l.name = SEED_LOCATIONS[k].name}) = 1
    /\ metrics # {}

-----------------------------------------------------------------------------
(* seed.location_scalers, seed.pseudo_hash *)

MaxSeed == 3          \* states of the random source range over 0 .. MaxSeed

\* The characters of code 32 .. 126, in the order of their codes (codes 34, 92
\* and 96 by name).
Ascii ==
    <<" ", "!", "quote", "#", "$", "%", "&", "'", "(", ")", "*", "+", ",", "-",
      ".", "/", "0", "1", "2", "3", "4", "5", "6", "7", "8", "9", ":", ";",
      "<", "=", ">", "?", "@", "A", "B", "C", "D", "E", "F", "G", "H", "I",
      "J", "K", "L", "M", "N", "O", "P", "Q", "R", "S", "T", "U", "V", "W",
      "X", "Y", "Z", "[", "backslash", "]", "^", "_", "backquote", "a", "b", "c", "d", "e",
      "f", "g", "h", "i", "j", "k", "l", "m", "n", "o", "p", "q", "r", "s",
      "t", "u", "v", "w", "x", "y", "z", "{", "|", "}", "~">>

\* ord(ch)
Ord(ch) == 31 + (CHOOSE i \in 1..Len(Ascii) : Ascii[i] = ch)

\* A 32-bit unsigned h is kept as two 16-bit halves, h = hi * 65536 + lo.
\* h = (h * 131 + ord(ch)) & 0xFFFFFFFF
HashStep(h, ch) ==
    LET low == h.lo * 131 + Ord(ch)
    IN  [hi |-> (h.hi * 131 + low \div 65536) % 65536, lo |-> low % 65536]

RECURSIVE HashFrom(_, _)
HashFrom(h, s) == IF s = <<>> THEN h ELSE HashFrom(HashStep(h, Head(s)), Tail(s))

\* pseudo_hash(s): h = 0; for ch in s: h = (h * 131 + ord(ch)) & 0xFFFFFFFF
pseudo_hash(s) == HashFrom([hi |-> 0, lo |-> 0], s)

\* h % m for a modulus m below 2^15
HashMod(h, m) == ((h.hi % m) * (65536 % m) + h.lo) % m

\* h // d % m, which is (h % (d * m)) // d
HashDivMod(h, d, m) == HashMod(h, d * m) \div d

\* A scaler base + (part / of) * span with base and span in tenths, as the exact
\* fraction n / d.
Scaler(base, part, of, span) == [n |-> base * of + part * span, d |-> 10 * of]

\* A curated scaler, given in hundredths.
Curated(x) == [n |-> x, d |-> 100]

\* base_hotspots: name -> (ped_scale, traffic_scale, volatility)
base_hotspots ==
    <<
      [name |->
          <<"C", "e", "n", "t", "r", "a", "l", " ", "S", "t", "a", "t", "i",
            "o", "n">>,
       scalers |-> <<Curated(180), Curated(90), Curated(120)>>],
      [name |->
          <<"T", "o", "w", "n", " ", "H", "a", "l", "l">>,
       scalers |-> <<Curated(160), Curated(80), Curated(115)>>],
      [name |->
          <<"W", "y", "n", "y", "a", "r", "d", " ", "S", "t", "a", "t", "i",
            "o", "n">>,
       scalers |-> <<Curated(155), Curated(85), Curated(110)>>],
      [name |->
          <<"C", "i", "r", "c", "u", "l", "a", "r", " ", "Q", "u", "a", "y">>,
       scalers |-> <<Curated(150), Curated(75), Curated(105)>>],
      [name |->
          <<"S", "y", "d", "n", "e", "y", " ", "O", "p", "e", "r", "a", " ",
            "H", "o", "u", "s", "e">>,
       scalers |-> <<Curated(170), Curated(50), Curated(125)>>],
      [name |->
          <<"H", "a", "r", "b", "o", "u", "r", " ", "B", "r", "i", "d", "g",
            "e", " ", "S", "o", "u", "t", "h">>,
       scalers |-> <<Curated(70), Curated(150), Curated(100)>>],
      [name |->
          <<"H", "a", "r", "b", "o", "u", "r", " ", "B", "r", "i", "d", "g",
            "e", " ", "N", "o", "r", "t", "h">>,
       scalers |-> <<Curated(65), Curated(145), Curated(95)>>],
      [name |->
          <<"A", "n", "z", "a", "c", " ", "B", "r", "i", "d", "g", "e", " ",
            "E", "a", "s", "t">>,
       scalers |-> <<Curated(40), Curated(160), Curated(90)>>],
      [name |->
          <<"W", "e", "s", "t", "e", "r", "n", " ", "D", "i", "s", "t", "r",
            "i", "b", "u", "t", "o", "r", " ", "R", "a", "m", "p">>,
       scalers |-> <<Curated(35), Curated(155), Curated(90)>>]>>

\* mutant: the volatility takes a draw of the shared random source
location_scalers_drawn(name, loc_type) ==
    LET h == pseudo_hash(name)
    IN  <<Scaler(6, HashMod(h, 37), 37, 10), Scaler(3, HashDivMod(h, 37, 29), 29, 6),
          Scaler(9, gen.rng, 23, 5)>>

\* location_scalers(name, loc_type)
location_scalers(name, loc_type) ==
    IF \E k \in 1..Len(base_hotspots) : base_hotspots[k].name = name
        THEN base_hotspots[CHOOSE k \in 1..Len(base_hotspots) :
                               base_hotspots[k].name = name].scalers
    ELSE LET h == pseudo_hash(name)
             ped_scale == IF loc_type = Pedestrian
                              THEN Scaler(6, HashMod(h, 37), 37, 10)
                              ELSE Scaler(3, HashMod(h, 41), 41, 6)
             traffic_scale == IF loc_type = Pedestrian
                                  THEN Scaler(3, HashDivMod(h, 37, 29), 29, 6)
                                  ELSE Scaler(7, HashDivMod(h, 41, 31), 31, 10)
             volatility == Scaler(9, HashDivMod(h, 100, 23), 23, 5)
         IN  <<ped_scale, traffic_scale, volatility>>

\* Names of Locations the generator is run over: two of the hotspot table, two
\* of SEED_LOCATIONS outside it, a hotspot name in lower case, the empty name.
CentralStation ==
    <<"C", "e", "n", "t", "r", "a", "l", " ", "S", "t", "a", "t", "i", "o",
      "n">>
HarbourBridgeSouth ==
    <<"H", "a", "r", "b", "o", "u", "r", " ", "B", "r", "i", "d", "g", "e",
      " ", "S", "o", "u", "t", "h">>
PittStMall ==
    <<"P", "i", "t", "t", " ", "S", "t", " ", "M", "a", "l", "l">>
GeorgeSt ==
    <<"G", "e", "o", "r", "g", "e", " ", "S", "t", " ", "&", " ", "M", "a",
      "r", "t", "i", "n", " ", "P", "l">>
central_station ==
    <<"c", "e", "n", "t", "r", "a", "l", " ", "s", "t", "a", "t", "i", "o",
      "n">>

ScalerLocations ==
    [name : {CentralStation, HarbourBridgeSouth, PittStMall, GeorgeSt, central_station, <<>>},
     type : {Pedestrian, Traffic}]

\* The Location list of the generator and the state of the random source.
ScalersInit ==
    /\ gen \in [rng : 0..MaxSeed, locs : SeqsUpTo(ScalerLocations, MaxLocs), runs : {<<>>}]
    /\ locations = {} /\ metrics = {} /\ locSeq = 0 /\ metSeq = 0
    /\ imp = IdleImp /\ seed = IdleSeed /\ resp = NoResp
    /\ scoreIn = 0 /\ scoreOut = <<>> /\ job = NoJob

\* One run of the generator over the list: location_scalers for every Location
\* (seed.py line 86); the draws of the run leave the random source in some state.
GeneratorRun ==
    /\ Len(gen.runs) < 2
    /\ \E r \in 0..MaxSeed :
          gen' = [gen EXCEPT
                    !.rng = r,
                    !.runs = Append(@, [rng |-> gen.rng,
                                        scalers |-> [k \in 1..Len(gen.locs) |->
                                            location_scalers(gen.locs[k].name,
                                                             gen.locs[k].type)]])]
    /\ UNCHANGED <<locations, metrics, locSeq, metSeq, imp, seed, resp, scoreIn, scoreOut,
                   job>>

ScalersNext == GeneratorRun

SpecScalers == ScalersInit /\ [][ScalersNext]_vars

-----------------------------------------------------------------------------
(* import_csv: runs of the importer over given files, one after the other *)

TrafficCapital == <<"T", "r", "a", "f", "f", "i", "c">>
LightVehiclesLabel ==
    <<"L", "i", "g", "h", "t", " ", "V", "e", "h", "i", "c", "l", "e", "s">>

\* Type strings of the files: one in the form normalize_type gives, one with a
\* capital, one that normalize_type maps to a class.
FileTypes == {Pedestrian, TrafficCapital, LightVehiclesLabel}

\* Rows of the locations files for one site.
SiteRows == {LocationRow(NameA, Site1, t) : t \in FileTypes}

\* Rows of the locations files: the site rows, a row that renames the site, a row
\* of another site and a row the importer skips.
FileLocationRows ==
    SiteRows \cup {LocationRow(NameB, Site1, Pedestrian),
                   LocationRow(NameA, Site2, Pedestrian),
                   LocationRow(<<Space>>, Site1, Pedestrian)}

\* Rows of the metrics files: valid rows of the site for every type string, a row
\* that writes the first instant as epoch seconds, and one row for each reason to
\* skip (no timestamp, a bad timestamp, a bad count, no type, no longitude, a
\* site without Location).
FileMetricRows ==
    {MetricRow(ts, <<"2200">>, Site1, t) : ts \in {Hour1Z, Hour2Naive}, t \in FileTypes}
    \cup {MetricRow(Hour1Epoch, <<"-500">>, Site1, Pedestrian),
          MetricRow(<<>>, <<"2200">>, Site1, Pedestrian),
          MetricRow(<<"soon">>, <<"2200">>, Site1, Pedestrian),
          MetricRow(Hour1Z, <<"many">>, Site1, Pedestrian),
          MetricRow(Hour1Z, <<"2200">>, Site1, <<>>),
          MetricRow(Hour1Z, <<"2200">>, [Site1 EXCEPT !.longitude = <<>>], Pedestrian),
          MetricRow(Hour2Naive, <<"2200">>, Site2, Pedestrian)}

\* The command line of one run: --mode, --file (its rows), --batch-size, --update
Run(mode, file, batch_size, update_existing) ==
    [mode |-> mode, file |-> file, batch_size |-> batch_size,
     update_existing |-> update_existing]

\* Rows of the longer metrics files: the two instants of the site and a row
\* without timestamp.
LongFileMetricRows ==
    {MetricRow(Hour1Z, <<"2200">>, Site1, Pedestrian),
     MetricRow(Hour2Naive, <<"2200">>, Site1, Pedestrian),
     MetricRow(<<>>, <<"2200">>, Site1, Pedestrian)}

\* The scripts: a locations file imported twice; a locations file of the site,
\* then a metrics file imported twice; the Location of the site, then a metrics
\* file one row longer than the others.
Scripts ==
    {<<Run("locations", f, b1, u), Run("locations", f, b2, FALSE)>> :
        f \in SeqsUpTo(FileLocationRows, MaxRows), b1 \in 1..MaxBatch,
        b2 \in 1..MaxBatch, u \in BOOLEAN}
    \cup {<<Run("locations", f, b, FALSE), Run("metrics", g, b1, FALSE),
            Run("metrics", g, b1, FALSE)>> :
        f \in SeqsUpTo(SiteRows, MaxRows), b \in 1..MaxBatch,
        g \in SeqsUpTo(FileMetricRows, MaxRows), b1 \in 1..MaxBatch}
    \cup {<<Run("locations", <<LocationRow(NameA, Site1, Pedestrian)>>, 1, FALSE),
            Run("metrics", g, b1, FALSE)>> :
        g \in [1..(MaxRows + 1) -> LongFileMetricRows], b1 \in 1..MaxBatch}

\* An empty database and a script; stores collects the committed tables as each
\* run leaves them.
FilesInit ==
    /\ job \in [pc : {"job"}, script : Scripts, k : {1}, stores : {<<>>}]
    /\ locations = {} /\ metrics = {} /\ locSeq = 0 /\ metSeq = 0
    /\ imp = IdleImp /\ seed = IdleSeed /\ resp = NoResp
    /\ scoreIn = 0 /\ scoreOut = <<>> /\ gen = IdleGen

\* main() of the next run of the script
JobStart ==
    /\ job.pc = "job"
    /\ imp.pc = "idle"
    /\ job.k <= Len(job.script)
    /\ LET run == job.script[job.k]
       IN  imp' = [IdleImp EXCEPT !.pc = run.mode, !.batch_size = run.batch_size,
                                  !.update_existing = run.update_existing]
    /\ UNCHANGED <<locations, metrics, locSeq, metSeq, seed, resp, scoreIn, scoreOut, gen,
                   job>>

\* One iteration of the loop of import_locations, over the next row of the file.
JobLocationsRow ==
    /\ job.pc = "job"
    /\ imp.pc = "locations"
    /\ imp.i < Len(job.script[job.k].file)
    /\ import_locations_row(job.script[job.k].file[imp.i + 1])
    /\ UNCHANGED <<seed, resp, scoreIn, scoreOut, gen, job>>

\* One iteration of the loop of import_metrics, over the next row of the file.
JobMetricsRow ==
    /\ job.pc = "job"
    /\ imp.pc = "metrics"
    /\ imp.i < Len(job.script[job.k].file)
    /\ import_metrics_row(job.script[job.k].file[imp.i + 1])
    /\ UNCHANGED <<seed, resp, scoreIn, scoreOut, gen, job>>

\* The file is exhausted: the session.commit() after the loop; the run ends.
JobEnd ==
    /\ job.pc = "job"
    /\ imp.pc \in {"locations", "metrics"}
    /\ imp.i = Len(job.script[job.k].file)
    /\ ImpCommitTables(imp)
    /\ imp' = IdleImp
    /\ job' = [job EXCEPT !.k = @ + 1,
                          !.stores = Append(@, [locations |-> locations',
                                                metrics |-> metrics'])]
    /\ UNCHANGED <<seed, resp, scoreIn, scoreOut, gen>>

\* The run ends with an exception after imp.i rows; the script stops there. The
\* job keeps the tables the run leaves and what the Session held when it was
\* rolled back.
JobAbort ==
    /\ job.pc = "job"
    /\ imp.pc \in {"locations", "metrics"}
    /\ ImpAbort(imp)
    /\ job' = [pc |-> "aborted", script |-> job.script, k |-> job.k,
               stores |-> Append(job.stores, [locations |-> locations',
                                              metrics |-> metrics']),
               at |-> imp.i, new |-> imp.new, dirty |-> imp.dirty]
    /\ UNCHANGED <<seed, resp, scoreIn, scoreOut, gen>>

FilesNext == JobStart \/ JobLocationsRow \/ JobMetricsRow \/ JobEnd \/ JobAbort

SpecFiles == FilesInit /\ [][FilesNext]_vars

\* C18: a run without update_existing that repeats the file and the mode of the
\* run before it leaves the committed tables as that run left them.
C18_SecondRunAddsNothing ==
    (job.pc = "job") =>
        \A i \in 2..Len(job.stores) :
            (/\ job.script[i].mode = job.script[i - 1].mode
             /\ job.script[i].file = job.script[i - 1].file
             /\ ~job.script[i].update_existing)
                => (job.stores[i] = job.stores[i - 1])

\* A metrics row whose timestamp, count, type and coordinates the importer can read.
ReadableMetricRow(row) ==
    /\ _get_field(row, <<"timestamp", "Timestamp">>) # <<>>
    /\ ~parse_timestamp(_get_field(row, <<"timestamp", "Timestamp">>)).err
    /\ ~RowCount(row).err
    /\ _get_field(row, <<"type", "Type", "classification_type">>) # <<>>
    /\ ~ParseFloat(_get_field(row, <<"latitude", "Latitude">>)).err
    /\ ~ParseFloat(_get_field(row, <<"longitude", "Longitude">>)).err

\* The script is a locations file followed by a metrics file, and both runs are
\* over.
LocationsThenMetrics ==
    /\ job.pc = "job"
    /\ Len(job.stores) >= 2
    /\ job.script[1].mode = "locations"
    /\ job.script[2].mode = "metrics"

\* C19: when a readable row of the metrics file carries the coordinates and the
\* type string of a row of the locations file imported before it, then after
\* both runs the Location of that row (same coordinates, that type) has an
\* Observation at the row's instant.
C19_SameTypeAttaches ==
    LocationsThenMetrics =>
        \A i \in 1..Len(job.script[1].file), j \in 1..Len(job.script[2].file) :
            LET lr == job.script[1].file[i]
                mr == job.script[2].file[j]
            IN  (/\ ReadableMetricRow(mr)
                 /\ _get_field(lr, <<"name", "Name">>) # <<>>
                 /\ mr.latitude = lr.latitude
                 /\ mr.longitude = lr.longitude
                 /\ mr.type = lr.type)
                    => \E l \in job.stores[2].locations, m \in job.stores[2].metrics :
                          /\ l.latitude = ParseFloat(lr.latitude).val
                          /\ l.longitude = ParseFloat(lr.longitude).val
                          /\ l.type = lr.type
                          /\ m.location_id = l.id
                          /\ m.timestamp = parse_timestamp(mr.timestamp).val

\* The Locations of the store st at the coordinates and the normalized type of a
\* readable metrics row.
MatchingLocations(row, st) ==
    {l \in st.locations :
        /\ l.latitude = ParseFloat(_get_field(row, <<"latitude", "Latitude">>)).val
        /\ l.longitude = ParseFloat(_get_field(row, <<"longitude", "Longitude">>)).val
        /\ l.type = normalize_type(_get_field(row, <<"type", "Type", "classification_type">>))}

\* A row import_metrics does not skip for what it holds: it is readable and the
\* store has a Location for it.
ImportableRow(row, st) == ReadableMetricRow(row) /\ MatchingLocations(row, st) # {}

\* Observation m is what the row gives for one of its Locations.
ObservationOf(m, row, st) ==
    /\ \E l \in MatchingLocations(row, st) : m.location_id = l.id
    /\ m.timestamp = parse_timestamp(_get_field(row, <<"timestamp", "Timestamp">>)).val
    /\ m.count = RowCount(row).val

\* C20: every finished import_metrics run leaves the Locations as they were and
\* drops no Observation; each Observation it added is that of an importable row
\* of the file, and there are no more of them than importable rows (a skipped
\* row adds none); every importable row, also one after skipped rows, has its
\* Observation in the store when the run ends.
C20_SkippedRowsOnly ==
    (job.pc = "job") =>
        \A i \in 2..Len(job.stores) :
            (job.script[i].mode = "metrics") =>
                LET before == job.stores[i - 1]
                    after == job.stores[i]
                    file == job.script[i].file
                    added == after.metrics \ before.metrics
                    importable == {j \in 1..Len(file) : ImportableRow(file[j], before)}
                IN  /\ after.locations = before.locations
                    /\ before.metrics \subseteq after.metrics
                    /\ \A m \in added : \E j \in importable : ObservationOf(m, file[j], before)
                    /\ Cardinality(added) <= Cardinality(importable)
                    /\ \A m \in added : \A m0 \in before.metrics :
                          ~(m0.location_id = m.location_id /\ m0.timestamp = m.timestamp)
                    /\ \A j \in importable :
                          \E m \in after.metrics :
                              /\ \E l \in MatchingLocations(file[j], before) :
                                    m.location_id = l.id
                              /\ m.timestamp = parse_timestamp(
                                    _get_field(file[j], <<"timestamp", "Timestamp">>)).val

\* A finished metrics run over a file whose first row is skipped and whose
\* second row is imported.
C20_Witness ==
    /\ LocationsThenMetrics
    /\ Len(job.script[2].file) = 2
    /\ ~ImportableRow(job.script[2].file[1], job.stores[1])
    /\ ImportableRow(job.script[2].file[2], job.stores[1])
    /\ Cardinality(job.stores[2].metrics) = 1

\* A locations row whose name and coordinates the importer can read.
ReadableLocationRow(row) ==
    /\ _get_field(row, <<"name", "Name">>) # <<>>
    /\ _get_field(row, <<"latitude", "Latitude">>) # <<>>
    /\ _get_field(row, <<"longitude", "Longitude">>) # <<>>
    /\ ~ParseFloat(_get_field(row, <<"latitude", "Latitude">>)).err
    /\ ~ParseFloat(_get_field(row, <<"longitude", "Longitude">>)).err

\* Location l lies at the coordinates of the row and has its type (the default
\* type when the row has none).
SameTriple(l, row) ==
    /\ l.latitude = ParseFloat(_get_field(row, <<"latitude", "Latitude">>)).val
    /\ l.longitude = ParseFloat(_get_field(row, <<"longitude", "Longitude">>)).val
    /\ l.type = (IF _get_field(row, <<"type", "Type">>) # <<>>
                    THEN _get_field(row, <<"type", "Type">>) ELSE Pedestrian)

\* The rows of table S in the order of their ids (the order of session.add).
IdOrder(S) ==
    CHOOSE q \in [1..Cardinality(S) -> S] :
        \A i \in 1..Cardinality(S), j \in 1..Cardinality(S) :
            (i < j) => (q[i].id < q[j].id)

\* The tables before run job.k of the script.
StoreBefore ==
    IF job.k = 1 THEN [locations |-> {}, metrics |-> {}] ELSE job.stores[job.k - 1]

\* f places the rows acc, in their order, on rows 1..n of the file.
Placements(acc, n) ==
    {f \in [1..Len(acc) -> 1..n] :
        \A i \in 1..Len(acc), j \in 1..Len(acc) : (i < j) => (f[i] < f[j])}

\* The last row up to n that is a multiple of the batch size b and was accepted.
LastCommit(accepted, n, b) ==
    SetMax({0} \cup {i \in 1..n : i % b = 0 /\ i \in accepted})

\* The aborted run was import_metrics. The Observations it committed, in id
\* order, followed by the ones the rollback dropped, are the accepted rows among
\* the rows read, in file order; the committed ones are those up to the last
\* commit.
AbortedMetricsRun ==
    LET run == job.script[job.k]
        file == run.file
        before == StoreBefore
        after == job.stores[job.k]
        added == after.metrics \ before.metrics
        acc == IdOrder(added) \o job.new
    IN  /\ after.locations = before.locations
        /\ before.metrics \subseteq after.metrics
        /\ \E f \in Placements(acc, job.at) :
              LET accepted == {f[k] : k \in 1..Len(acc)}
                  c == LastCommit(accepted, job.at, run.batch_size)
              IN  /\ \A k \in 1..Len(acc) :
                        /\ ImportableRow(file[f[k]], before)
                        /\ ObservationOf(acc[k], file[f[k]], before)
                  /\ \A i \in (1..job.at) \ accepted :
                        \/ ~ImportableRow(file[i], before)
                        \/ \E m \in after.metrics :
                              /\ \E l \in MatchingLocations(file[i], before) :
                                    m.location_id = l.id
                              /\ m.timestamp = parse_timestamp(
                                    _get_field(file[i], <<"timestamp", "Timestamp">>)).val
                  /\ \A k \in 1..Len(acc) : (k <= Cardinality(added)) <=> (f[k] <= c)

\* The aborted run was import_locations. The same for the Locations it added; a
\* Location that was there keeps its place and type, and its name unless a row
\* up to the last commit renamed it. With update_existing every readable row is
\* accepted.
AbortedLocationsRun ==
    LET run == job.script[job.k]
        file == run.file
        before == StoreBefore
        after == job.stores[job.k]
        added == {l \in after.locations : \A l0 \in before.locations : l0.id # l.id}
        acc == IdOrder(added) \o job.new
    IN  /\ after.metrics = before.metrics
        /\ \E f \in Placements(acc, job.at) :
              LET inserted == {f[k] : k \in 1..Len(acc)}
                  accepted == inserted \cup
                      {i \in 1..job.at : run.update_existing /\ ReadableLocationRow(file[i])}
                  c == LastCommit(accepted, job.at, run.batch_size)
                  Renamed(l) ==
                      \E i \in 1..c :
                          /\ run.update_existing
                          /\ ReadableLocationRow(file[i])
                          /\ SameTriple(l, file[i])
                          /\ l.name = _get_field(file[i], <<"name", "Name">>)
              IN  /\ \A k \in 1..Len(acc) :
                        /\ ReadableLocationRow(file[f[k]])
                        /\ SameTriple(acc[k], file[f[k]])
                        /\ \/ acc[k].name = _get_field(file[f[k]], <<"name", "Name">>)
                           \/ k <= Cardinality(added) /\ Renamed(acc[k])
                  /\ \A i \in (1..job.at) \ inserted :
                        \/ ~ReadableLocationRow(file[i])
                        \/ \E l \in after.locations : SameTriple(l, file[i])
                  /\ \A k \in 1..Len(acc) : (k <= Cardinality(added)) <=> (f[k] <= c)
                  /\ \A l0 \in before.locations :
                        \E l \in after.locations :
                            /\ l.id = l0.id
                            /\ l.latitude = l0.latitude
                            /\ l.longitude = l0.longitude
                            /\ l.type = l0.type
                            /\ (l.name = l0.name \/ Renamed(l))

\* C21: when a run aborts, the tables hold what they held before the run and
\* the accepted rows up to the last commit (the last accepted row whose number
\* is a multiple of batch_size), in file order; the accepted rows after it are
\* the ones the rollback dropped.
C21_AbortKeepsCommittedPrefix ==
    (job.pc = "aborted") =>
        IF job.script[job.k].mode = "metrics"
            THEN AbortedMetricsRun
            ELSE AbortedLocationsRun

\* A run of import_metrics aborted after a commit: an Observation of the run is
\* in the store and a later one was dropped.
C21_Witness ==
    /\ job.pc = "aborted"
    /\ job.script[job.k].mode = "metrics"
    /\ job.stores[job.k].metrics # StoreBefore.metrics
    /\ job.new # <<>>

-----------------------------------------------------------------------------
(* compute_intensity on its own *)

ScoreInit ==
    /\ scoreIn \in 0..MaxCount
    /\ scoreOut = <<>>
    /\ locations = {} /\ metrics = {} /\ locSeq = 0 /\ metSeq = 0
    /\ imp = IdleImp /\ seed = IdleSeed /\ resp = NoResp
    /\ gen = IdleGen /\ job = NoJob

Score ==
    /\ Len(scoreOut) < 2
    /\ scoreOut' = Append(scoreOut, compute_intensity(scoreIn + Len(scoreOut)))
    /\ UNCHANGED <<locations, metrics, locSeq, metSeq, imp, seed, resp, scoreIn, gen, job>>

ScoreNext == Score

SpecScore == ScoreInit /\ [][ScoreNext]_vars

\* C8: compute_intensity(count) is min(count/2000, 1) rounded to thousandths for
\* every count >= 0 (at most half a thousandth away from it), it never decreases
\* from one count to the next, it is 0.0 at 0, 0.25 at 500 and 1.0 from 2000 on.
C8_ScoreShape ==
    /\ \A i \in 1..Len(scoreOut) :
          LET c == scoreIn + i - 1
              out == scoreOut[i]
          IN  /\ Abs(2 * out - Min(c, C_MAX)) <= 1
              /\ (c = 0) => (out = 0)
              /\ (c = 500) => (out = 250)
              /\ (c >= C_MAX) => (out = 1000)
    /\ (Len(scoreOut) = 2) => (scoreOut[1] <= scoreOut[2])

C8_Witness ==
    /\ scoreIn = 1999
    /\ Len(scoreOut) = 2
    /\ scoreOut[2] = 1000

====
